---- MODULE Spec2Model ----
(***************************************************************************)
(* Verification model of lib/connectors/connector.js: the base connector   *)
(* object.  A connector is a closure over four private variables (id,      *)
(* label, steps, options).  `options` is a reference to a JavaScript       *)
(* object: the one the caller passed to the constructor, or a fresh {}     *)
(* when the caller passed nothing.  Objects live in `heap`; a connector    *)
(* holds a reference into it, and so does every object toJSON returns.     *)
(***************************************************************************)
EXTENDS Naturals, Sequences, FiniteSets, TLC

VARIABLES
    heap,       \* object reference -> the object (own properties, prototype)
    exists,     \* connector -> whether `new connector(...)` has returned it
    id,         \* connector -> closure variable id
    label,      \* connector -> closure variable label
    steps,      \* connector -> closure variable steps (an array reference)
    options,    \* connector -> closure variable options (an object reference)
    last        \* the most recent call: its arguments, result and callbacks

vars == <<heap, exists, id, label, steps, options, last>>

(***************************************************************************)
(* Bounds of the model.                                                    *)
(***************************************************************************)
MaxId == 1          \* identifiers handed to setId are 1..MaxId
MaxStepsLen == 2    \* step arrays handed to setSteps hold 0..MaxStepsLen steps

(***************************************************************************)
(* JavaScript values.  `kind` is the type tag, `n` the number (kind        *)
(* "number") or the allocation identity (kinds "array" and "object"; two   *)
(* arrays with the same elements and different `n` are different arrays),  *)
(* `s` the string, the elements or the key/value list.                     *)
(***************************************************************************)
Undefined == [kind |-> "undefined", n |-> 0, s |-> <<>>]
Null == [kind |-> "null", n |-> 0, s |-> <<>>]
TrueV == [kind |-> "boolean", n |-> 0, s |-> <<"true">>]
FalseV == [kind |-> "boolean", n |-> 0, s |-> <<"false">>]
NumV(i) == [kind |-> "number", n |-> i, s |-> <<>>]
StrV(str) == [kind |-> "string", n |-> 0, s |-> <<str>>]
ArrV(ref, elems) == [kind |-> "array", n |-> ref, s |-> elems]

\* No own property under this key (not a JavaScript value).
Absent == [kind |-> "absent", n |-> 0, s |-> <<>>]

Conns == {"a", "b"}

\* Property names the model distinguishes.  "hasOwnProperty" and "__proto__"
\* are ordinary strings to the caller and special to a JavaScript object.
DefaultKeys == <<"useOAuth", "extraRequiredFields">>
Keys == {"useOAuth", "extraRequiredFields", "custom", "hasOwnProperty", "__proto__"}

\* The array ['token'] a caller owns.
TokenArr == ArrV(50, <<"token">>)

\* `var steps = []`: a fresh array per connector.
InitialSteps(c) == ArrV(IF c = "a" THEN 101 ELSE 201, <<>>)

\* `var defaults = {useOAuth:true, extraRequiredFields:[]}`: built anew by every
\* constructor call, so the empty array is a fresh one per connector.
defaults(c) ==
    [k \in {DefaultKeys[i] : i \in 1..Len(DefaultKeys)} |->
        IF k = "useOAuth" THEN TrueV
        ELSE ArrV(IF c = "a" THEN 102 ELSE 202, <<>>)]

\* { message : 'Not Authorized', code: 401 }
NotAuthorized ==
    [kind |-> "object", n |-> 0, s |-> <<"message", "Not Authorized", "code", "401">>]

(***************************************************************************)
(* Objects: own properties and a prototype.  proto is "Object.prototype"   *)
(* (an object literal), "object" (some other object whose chain ends in    *)
(* Object.prototype) or "null".                                            *)
(***************************************************************************)
NoOwn == [k \in Keys |-> Absent]
EmptyObject == [own |-> NoOwn, proto |-> "Object.prototype"]
Unallocated == [own |-> NoOwn, proto |-> "unallocated"]

ObjectLiteral(k, v) == [own |-> [NoOwn EXCEPT ![k] = v], proto |-> "Object.prototype"]

\* Object references: the bag the caller owns, and the {} that
\* `options || {}` allocates for a connector constructed without one.
Refs == {"A", "fresh_a", "fresh_b"}
FreshRef(c) == IF c = "a" THEN "fresh_a" ELSE "fresh_b"

\* o.hasOwnProperty, looked up as JavaScript does: an own property shadows the
\* inherited method, and an object without prototype inherits none.  Option
\* values are data, never functions, so an own property is not callable.
LookupHasOwnProperty(o) ==
    IF o.own["hasOwnProperty"] # Absent THEN "own value"
    ELSE IF o.proto = "null" THEN "undefined"
    ELSE "Object.prototype.hasOwnProperty"

\* Whether the call o.hasOwnProperty(key) can be made (else: TypeError).
CanCallHasOwnProperty(o) == LookupHasOwnProperty(o) = "Object.prototype.hasOwnProperty"

\* Object.prototype.hasOwnProperty.call(o, k)
HasOwn(o, k) == o.own[k] # Absent

\* o[k] = v.  "__proto__" is an accessor inherited from Object.prototype: its
\* setter replaces the prototype when v is an object or null and ignores any
\* other v.  An object that does not inherit it gets an ordinary own property.
Put(o, k, v) ==
    IF k = "__proto__" /\ o.own[k] = Absent /\ o.proto # "null"
    THEN IF v.kind \in {"array", "object"} THEN [o EXCEPT !.proto = "object"]
         ELSE IF v.kind = "null" THEN [o EXCEPT !.proto = "null"]
         ELSE o
    ELSE [o EXCEPT !.own[k] = v]

\* _.forIn(defaults, function(value, key) { if ( !options.hasOwnProperty(key) )
\* options[key] = value; }), from the i-th default on.
RECURSIVE forIn(_, _, _)
forIn(o, c, i) ==
    IF i > Len(DefaultKeys) THEN [obj |-> o, threw |-> FALSE]
    ELSE IF ~CanCallHasOwnProperty(o) THEN [obj |-> o, threw |-> TRUE]
    ELSE forIn(IF ~HasOwn(o, DefaultKeys[i])
               THEN Put(o, DefaultKeys[i], defaults(c)[DefaultKeys[i]])
               ELSE o,
               c, i + 1)

\* options.hasOwnProperty(key) ? options[key] : null
getOption(o, key) ==
    IF ~CanCallHasOwnProperty(o) THEN [threw |-> TRUE, ret |-> Undefined]
    ELSE [threw |-> FALSE, ret |-> IF HasOwn(o, key) THEN o.own[key] ELSE Null]

(***************************************************************************)
(* The record of a call.  cb lists the invocations of the callback the     *)
(* call was given, each with its argument list; json is the object toJSON  *)
(* returned; given is the caller's bag as it was when the constructor was  *)
(* entered.                                                                *)
(***************************************************************************)
NoJson ==
    [id |-> Undefined, label |-> Undefined, steps |-> Undefined,
     options |-> "none", path |-> Undefined]

Call(op, c) ==
    [op |-> op, c |-> c, key |-> "", arg |-> Undefined, given |-> Unallocated,
     ret |-> Undefined, threw |-> FALSE, cb |-> <<>>, json |-> NoJson]

(***************************************************************************)
(* Inputs.                                                                 *)
(***************************************************************************)
Ids == {NumV(i) : i \in 1..MaxId}
Labels == {StrV("label")}
StepArrays == {ArrV(n + 1, [i \in 1..n |-> "step"]) : n \in 0..MaxStepsLen}

\* Bags a caller may own before constructing a connector with them.
CallerBags ==
    {EmptyObject,
     ObjectLiteral("useOAuth", FalseV),
     ObjectLiteral("extraRequiredFields", TokenArr),
     ObjectLiteral("custom", FalseV),
     ObjectLiteral("hasOwnProperty", FalseV)}

\* setOption calls: a default key overridden, a new key set and overwritten,
\* and the two keys a JavaScript object treats specially.
OptionInputs ==
    {<<"useOAuth", FalseV>>, <<"custom", FalseV>>, <<"custom", TokenArr>>,
     <<"custom", Null>>, <<"hasOwnProperty", FalseV>>,
     <<"__proto__", FalseV>>, <<"__proto__", Null>>, <<"__proto__", TokenArr>>}

(***************************************************************************)
(* Initial state: no connector constructed; the caller owns one bag.       *)
(***************************************************************************)
InitWith(bags) ==
    /\ \E bag \in bags : heap = [r \in Refs |-> IF r = "A" THEN bag ELSE Unallocated]
    /\ exists = [c \in Conns |-> FALSE]
    /\ id = [c \in Conns |-> Undefined]
    /\ label = [c \in Conns |-> Undefined]
    /\ steps = [c \in Conns |-> Undefined]
    /\ options = [c \in Conns |-> "none"]
    /\ last = Call("none", "")

Init == InitWith(CallerBags)

(***************************************************************************)
(* new connector(arg): arg is "undefined" (no argument) or the reference   *)
(* of the caller's bag.                                                    *)
(***************************************************************************)
Construct(c, arg) ==
    LET ref == IF arg = "undefined" THEN FreshRef(c) ELSE arg
        given == IF arg = "undefined" THEN EmptyObject ELSE heap[arg]
        merged == forIn(given, c, 1)
        call == [Call("construct", c) EXCEPT !.given = given, !.threw = merged.threw]
    IN /\ ~exists[c]
       /\ last' = call
       /\ IF merged.threw
          THEN /\ heap' = IF arg = "undefined" THEN heap
                          ELSE [heap EXCEPT ![ref] = merged.obj]
               /\ UNCHANGED <<exists, id, label, steps, options>>
          ELSE /\ heap' = [heap EXCEPT ![ref] = merged.obj]
               /\ exists' = [exists EXCEPT ![c] = TRUE]
               /\ id' = [id EXCEPT ![c] = Null]
               /\ label' = [label EXCEPT ![c] = Null]
               /\ steps' = [steps EXCEPT ![c] = InitialSteps(c)]
               /\ options' = [options EXCEPT ![c] = ref]

GetId(c) ==
    /\ exists[c]
    /\ last' = [Call("getId", c) EXCEPT !.ret = id[c]]
    /\ UNCHANGED <<heap, exists, id, label, steps, options>>

SetId(c, v) ==
    /\ exists[c]
    /\ id' = [id EXCEPT ![c] = v]
    /\ last' = [Call("setId", c) EXCEPT !.arg = v]
    /\ UNCHANGED <<heap, exists, label, steps, options>>

SetOption(c, key, value) ==
    /\ exists[c]
    /\ heap' = [heap EXCEPT ![options[c]] = Put(heap[options[c]], key, value)]
    /\ last' = [Call("setOption", c) EXCEPT !.key = key, !.arg = value]
    /\ UNCHANGED <<exists, id, label, steps, options>>

GetOption(c, key) ==
    LET r == getOption(heap[options[c]], key)
    IN /\ exists[c]
       /\ last' = [Call("getOption", c) EXCEPT !.key = key, !.ret = r.ret, !.threw = r.threw]
       /\ UNCHANGED <<heap, exists, id, label, steps, options>>

GetLabel(c) ==
    /\ exists[c]
    /\ last' = [Call("getLabel", c) EXCEPT !.ret = label[c]]
    /\ UNCHANGED <<heap, exists, id, label, steps, options>>

\* setLabel written by copying setId and renaming only the parameter.
SetLabelAlsoSetsId(c, v) ==
    /\ exists[c]
    /\ label' = [label EXCEPT ![c] = v]
    /\ id' = [id EXCEPT ![c] = v]
    /\ last' = [Call("setLabel", c) EXCEPT !.arg = v]
    /\ UNCHANGED <<heap, exists, steps, options>>

SetLabel(c, v) ==
    /\ exists[c]
    /\ label' = [label EXCEPT ![c] = v]
    /\ last' = [Call("setLabel", c) EXCEPT !.arg = v]
    /\ UNCHANGED <<heap, exists, id, steps, options>>

\* setSteps adding the new steps to the held array instead of replacing it.
SetStepsAppends(c, v) ==
    /\ exists[c]
    /\ steps' = [steps EXCEPT ![c] = ArrV(steps[c].n, steps[c].s \o v.s)]
    /\ last' = [Call("setSteps", c) EXCEPT !.arg = v]
    /\ UNCHANGED <<heap, exists, id, label, options>>

SetSteps(c, v) ==
    /\ exists[c]
    /\ steps' = [steps EXCEPT ![c] = v]
    /\ last' = [Call("setSteps", c) EXCEPT !.arg = v]
    /\ UNCHANGED <<heap, exists, id, label, options>>

GetSteps(c) ==
    /\ exists[c]
    /\ last' = [Call("getSteps", c) EXCEPT !.ret = steps[c]]
    /\ UNCHANGED <<heap, exists, id, label, steps, options>>

\* runStarted with an empty body, as runFinished and init have.
RunStartedNeverReady(c) ==
    /\ exists[c]
    /\ last' = Call("runStarted", c)
    /\ UNCHANGED <<heap, exists, id, label, steps, options>>

\* return readyCallback();
RunStarted(c) ==
    /\ exists[c]
    /\ last' = [Call("runStarted", c) EXCEPT !.cb = << <<>> >>]
    /\ UNCHANGED <<heap, exists, id, label, steps, options>>

RunFinished(c) ==
    /\ exists[c]
    /\ last' = Call("runFinished", c)
    /\ UNCHANGED <<heap, exists, id, label, steps, options>>

InitConnector(c) ==
    /\ exists[c]
    /\ last' = Call("init", c)
    /\ UNCHANGED <<heap, exists, id, label, steps, options>>

\* return callback({ message : 'Not Authorized', code: 401 });
AuthCallback(c) ==
    /\ exists[c]
    /\ last' = [Call("authCallback", c) EXCEPT !.cb = << <<NotAuthorized>> >>]
    /\ UNCHANGED <<heap, exists, id, label, steps, options>>

\* connectDataSource completing as passportAuthCallbackPostProcessing does.
ConnectDataSourceNoError(c) ==
    /\ exists[c]
    /\ last' = [Call("connectDataSource", c) EXCEPT !.cb = << <<>> >>]
    /\ UNCHANGED <<heap, exists, id, label, steps, options>>

ConnectDataSource(c) ==
    /\ exists[c]
    /\ last' = [Call("connectDataSource", c) EXCEPT !.cb = << <<NotAuthorized>> >>]
    /\ UNCHANGED <<heap, exists, id, label, steps, options>>

GetPassportStrategy(c) ==
    /\ exists[c]
    /\ last' = [Call("getPassportStrategy", c) EXCEPT !.ret = Null]
    /\ UNCHANGED <<heap, exists, id, label, steps, options>>

\* return {};
GetPassportAuthorizationParams(c) ==
    /\ exists[c]
    /\ last' = [Call("getPassportAuthorizationParams", c) EXCEPT
                    !.ret = [kind |-> "object", n |-> 0, s |-> <<>>]]
    /\ UNCHANGED <<heap, exists, id, label, steps, options>>

\* return callback();
PassportAuthCallbackPostProcessing(c) ==
    /\ exists[c]
    /\ last' = [Call("passportAuthCallbackPostProcessing", c) EXCEPT !.cb = << <<>> >>]
    /\ UNCHANGED <<heap, exists, id, label, steps, options>>

\* `this.path` is assigned nowhere in the module: this.path || null is null.
\* `options: options` hands out the reference the connector itself holds.
toJSON(c) ==
    [id |-> id[c], label |-> label[c], steps |-> steps[c],
     options |-> options[c], path |-> Null]

ToJSON(c) ==
    /\ exists[c]
    /\ last' = [Call("toJSON", c) EXCEPT !.json = toJSON(c)]
    /\ UNCHANGED <<heap, exists, id, label, steps, options>>

(***************************************************************************)
(* One connector, every operation.                                         *)
(***************************************************************************)
Next ==
    \E c \in {"a"} :
        \/ \E arg \in {"undefined", "A"} : Construct(c, arg)
        \/ GetId(c)
        \/ \E v \in Ids : SetId(c, v)
        \/ \E kv \in OptionInputs : SetOption(c, kv[1], kv[2])
        \/ \E key \in Keys : GetOption(c, key)
        \/ GetLabel(c)
        \/ \E v \in Labels : SetLabel(c, v)
        \/ \E v \in StepArrays : SetSteps(c, v)
        \/ GetSteps(c)
        \/ RunStarted(c)
        \/ RunFinished(c)
        \/ InitConnector(c)
        \/ AuthCallback(c)
        \/ ConnectDataSource(c)
        \/ GetPassportStrategy(c)
        \/ GetPassportAuthorizationParams(c)
        \/ PassportAuthCallbackPostProcessing(c)
        \/ ToJSON(c)

Spec == Init /\ [][Next]_vars

(***************************************************************************)
(* Two connectors, which the caller may construct from the same bag.       *)
(***************************************************************************)
InitTwo == InitWith({EmptyObject, ObjectLiteral("useOAuth", FalseV)})

NextTwo ==
    \E c \in Conns :
        \/ \E arg \in {"undefined", "A"} : Construct(c, arg)
        \/ \E v \in Ids : SetId(c, v)
        \/ \E v \in Labels : SetLabel(c, v)
        \/ \E v \in StepArrays : SetSteps(c, v)
        \/ \E v \in {FalseV, TokenArr} : SetOption(c, "custom", v)
        \/ GetOption(c, "custom")
        \/ ToJSON(c)

SpecTwo == InitTwo /\ [][NextTwo]_vars

(***************************************************************************)
(* Properties.                                                             *)
(***************************************************************************)
Setters == {"setId", "setLabel", "setSteps", "setOption"}

\* What a holder of the object j that toJSON returned reads from it, with the
\* heap as h.
JsonView(j, h) ==
    [id |-> j.id, label |-> j.label, steps |-> j.steps, options |-> h[j.options]]

\* C1: right after construction with any bag O (or none), getOption(K) of a
\* default key K returns O's own value when O has K and the default when it
\* has not (useOAuth: true, extraRequiredFields: an empty array), and every
\* other key of O is returned unchanged.
C1_ConstructionMergesDefaults ==
    last.op = "construct" =>
        /\ ~last.threw
        /\ \A k \in Keys :
            LET r == getOption(heap[options[last.c]], k)
            IN /\ ~r.threw
               /\ IF HasOwn(last.given, k) THEN r.ret = last.given.own[k]
                  ELSE IF k = "useOAuth" THEN r.ret = TrueV
                  ELSE IF k = "extraRequiredFields"
                       THEN r.ret.kind = "array" /\ r.ret.s = <<>>
                  ELSE TRUE

\* C2: in every reachable state, getOption(key) for a key that is not in the
\* option bag returns null and does not throw.
C2_GetOptionAbsentKeyIsNull ==
    (last.op = "getOption" /\ ~HasOwn(heap[options[last.c]], last.key)) =>
        (~last.threw /\ last.ret = Null)

\* C3: setOption(k, v) immediately followed by getOption(k) returns exactly v.
C3_SetThenGetOption ==
    [][(/\ last.op = "setOption"
        /\ last'.op = "getOption"
        /\ last'.c = last.c
        /\ last'.key = last.key)
       => (~last'.threw /\ last'.ret = last.arg)]_vars

\* C4: setSteps(S) followed by getSteps() returns S itself (the same array,
\* hence the same elements in the same order and none of the array held
\* before); as long as setSteps has not been called, getSteps() returns the
\* empty sequence.  Callers hand in their own arrays, so a connector still
\* holds the array it was constructed with exactly when setSteps has not been
\* called.
C4_SetThenGetSteps ==
    [][last'.op = "getSteps" =>
        /\ (last.op = "setSteps" /\ last.c = last'.c) => last'.ret = last.arg
        /\ (last.op = "construct" /\ last.c = last'.c) =>
                (last'.ret.kind = "array" /\ last'.ret.s = <<>>)
        /\ steps[last'.c].n = InitialSteps(last'.c).n =>
                (last'.ret.kind = "array" /\ last'.ret.s = <<>>)]_vars

C4_Witness ==
    /\ last.op = "getSteps"
    /\ last.ret \in StepArrays
    /\ Len(last.ret.s) = MaxStepsLen

\* C5: the default authCallback and connectDataSource each invoke their
\* callback exactly once, before returning, with the one argument
\* { message: 'Not Authorized', code: 401 }, and do not throw.
C5_NotAuthorizedCallback ==
    last.op \in {"authCallback", "connectDataSource"} =>
        /\ ~last.threw
        /\ Len(last.cb) = 1
        /\ Len(last.cb[1]) = 1
        /\ last.cb[1][1].kind = "object"
        /\ last.cb[1][1].s = <<"message", "Not Authorized", "code", "401">>

C5_Witness ==
    /\ last.op = "connectDataSource"
    /\ id[last.c] \in Ids
    /\ ~CanCallHasOwnProperty(heap[options[last.c]])

\* C6: the default runStarted invokes readyCallback exactly once, before
\* returning, with no arguments, in every connector state.
C6_RunStartedReady ==
    last.op = "runStarted" =>
        (~last.threw /\ Len(last.cb) = 1 /\ last.cb[1] = <<>>)

C6_Witness ==
    /\ last.op = "runStarted"
    /\ label[last.c] \in Labels
    /\ steps[last.c] \in StepArrays

\* C7: the object toJSON() returns has id equal to getId(), label equal to
\* getLabel(), steps equal to getSteps(), and options holding exactly the
\* key/value pairs getOption reports at the time of the call.
C7_ToJSONMatchesAccessors ==
    last.op = "toJSON" =>
        /\ last.json.id = id[last.c]
        /\ last.json.label = label[last.c]
        /\ last.json.steps = steps[last.c]
        /\ \A k \in Keys :
            LET r == getOption(heap[options[last.c]], k)
                held == heap[last.json.options]
            IN /\ ~r.threw
               /\ r.ret = IF HasOwn(held, k) THEN held.own[k] ELSE Null

\* C8: no setId, setLabel, setSteps or setOption call made after toJSON()
\* returned changes the id, label, steps or options of the returned object.
C8_ToJSONIsSnapshot ==
    [][(last.op = "toJSON" /\ last'.op \in Setters /\ last'.c = last.c)
       => JsonView(last.json, heap') = JsonView(last.json, heap)]_vars

Observe(c, h) ==
    [id |-> id[c], label |-> label[c], steps |-> steps[c],
     opts |-> [k \in Keys |-> getOption(h[options[c]], k)],
     json |-> JsonView(toJSON(c), h)]

\* C10: no setId, setLabel, setSteps or setOption call on one connector
\* changes what getId, getLabel, getSteps, getOption or toJSON report on
\* another, and construction does not alter the bag the caller passed in.
C10_InstancesIndependent ==
    [][/\ last'.op \in Setters =>
            \A d \in Conns \ {last'.c} :
                exists[d] => (/\ id'[d] = id[d]
                              /\ label'[d] = label[d]
                              /\ steps'[d] = steps[d]
                              /\ options'[d] = options[d]
                              /\ Observe(d, heap') = Observe(d, heap))
       /\ (last'.op = "construct" /\ options'[last'.c] = "A" /\ options[last'.c] = "none")
            => heap'["A"] = heap["A"]]_vars

====
